---- MODULE Spec2Model ----
(***************************************************************************)
(* Model of hloc/extract_features.py: the ImageDataset path resolution     *)
(* and resize policy, the resumable extraction loop of main(), the         *)
(* keypoint rescaling and half-precision downcast, and the command-line    *)
(* entry point.                                                            *)
(***************************************************************************)
EXTENDS Integers, Sequences, FiniteSets, TLC

(* ------------------------------ bounds --------------------------------- *)
\* number of distinct image names that may exist under the root
NumNames == 2
\* longest explicit image list handed to main()
MaxList == 2

Names == 1..NumNames

\* datasets of one group, in the insertion order of the pred dict:
\* the backend's fields first, image_size (line 186) last
FieldOrder == <<"global_descriptor", "image_size">>
NumFields == Len(FieldOrder)

VARIABLES
    \* ---- the world outside one run -------------------------------------
    store,        \* the h5 file at feature_path: name -> group
    files,        \* names of the image files that exist under image_dir
    \* ---- arguments of main() -------------------------------------------
    image_list,   \* [kind: "None" | "file" | "seq", names: sequence]
    \* ---- locals of main() ----------------------------------------------
    pc,
    names,        \* loader.dataset.names
    skip_names,
    loaded,       \* the model has been built (lines 174-176)
    idx,          \* position of the loader in names
    err,          \* the exception that ended the run, "none" otherwise
    \* ---- history of the current run ------------------------------------
    startStore,   \* the store as it was when main() was entered
    preprocLog,   \* names whose image went through __getitem__
    inferLog,     \* names given to model(...)
    postLog,      \* names whose pred was rescaled / downcast
    appendLog,    \* names for which create_group succeeded
    \* ---- history across runs -------------------------------------------
    base,         \* the store before the first run of a chain of resumed runs
    resumed       \* this run repeats the inputs of an interrupted run

VARIABLES
    \* ---- one image through __getitem__, the backend and the rescaling ---
    raw,          \* image.shape[:2] of the image read from disk, (H, W)
    pconf,        \* conf['preprocessing']: resize_max (0 for None), resize_force
    data,         \* what __getitem__ returns: original_size, shape of the image
    kp,           \* one keypoint (x, y) returned by the backend
    pred,         \* the pred dict of main(): image_size, keypoints
    ipc

ivars == <<raw, pconf, data, kp, pred, ipc>>

VARIABLES
    \* ---- the dtypes of one pred dict on its way to the file -------------
    back_dt,      \* field -> dtype of the arrays the backend returned
    pre_dt,       \* field -> dtype of pred when line 192 is reached
    pred_dt,      \* field -> dtype of pred
    saved_dt,     \* field -> dtype of the dataset written by create_dataset
    half,         \* the as_half argument of main()
    hpc

hvars == <<back_dt, pre_dt, pred_dt, saved_dt, half, hpc>>

VARIABLES
    \* ---- the command line ----------------------------------------------
    args,         \* the namespace parse_args() returns
    call,         \* the parameters main() is entered with
    out_path,     \* the feature_path main() writes to and returns
    cpc

cvars == <<args, call, out_path, cpc>>


pvars == <<store, files, image_list, pc, names, skip_names, loaded,
           idx, err, startStore, preprocLog, inferLog, postLog, appendLog,
           base, resumed>>

vars == <<pvars, ivars, hvars, cvars>>

\* what an action of one part leaves alone
others_p == <<ivars, hvars, cvars>>
others_i == <<pvars, hvars, cvars>>
others_h == <<pvars, ivars, cvars>>
others_c == <<pvars, ivars, hvars>>

(* ------------------------------ helpers -------------------------------- *)
Range(s) == {s[i] : i \in 1..Len(s)}

Min(S) == CHOOSE x \in S : \A y \in S : x <= y

RECURSIVE sorted(_)
\* sorted(list(set(paths))), line 108
sorted(S) == IF S = {} THEN <<>> ELSE <<Min(S)>> \o sorted(S \ {Min(S)})

SeqsUpTo(S, n) == UNION {[1..k -> S] : k \in 0..n}

EmptyStore == [n \in {} |-> 0]

\* list_h5_names(feature_path) if feature_path.exists() else ()
list_h5_names(st) == DOMAIN st

\* parse_image_lists(paths): the names written in the list file, in order
parse_image_lists(lines) == lines

(* ---------------------- ImageDataset.__init__ --------------------------- *)
NoList == [kind |-> "None", names |-> <<>>]

ImageLists ==
    {NoList} \cup [kind : {"file", "seq"}, names : SeqsUpTo(Names, MaxList)]

\* self.names: glob discovery is deduplicated and sorted (lines 104-109),
\* an explicit list is taken entry by entry as given (lines 112-116)
ResolveNames(fs, il) ==
    IF il.kind = "None" THEN sorted(fs)
    ELSE IF il.kind = "file" THEN parse_image_lists(il.names)
    ELSE il.names

\* __init__ without the existence check of lines 120-123
ResolveErrorNoCheck(fs, il) ==
    IF il.kind = "None" /\ fs = {} THEN "EmptyDataset" ELSE "none"

\* the ValueError raised by __init__, "none" if it returns
ResolveError(fs, il) ==
    IF il.kind = "None"
    THEN IF fs = {} THEN "EmptyDataset" ELSE "none"
    ELSE IF \E i \in 1..Len(ResolveNames(fs, il)) :
                ResolveNames(fs, il)[i] \notin fs
         THEN "MissingImage" ELSE "none"

(* ------------------------------ main() ---------------------------------- *)
\* the early return taken only when the store holds exactly the resolved names
AllSkippedEqual(ns, skip) == Range(ns) = skip

\* set(loader.dataset.names).issubset(set(skip_names)), line 170
AllSkipped(ns, skip) == Range(ns) \subseteq skip

\* name in skip_names, line 180
InSkip(name, skip) == name \in skip

\* h5py.File(str(feature_path), 'w'): the file is truncated
OpenTruncate(st) == EmptyStore

\* h5py.File(str(feature_path), 'a'): the existing groups are kept
OpenAppend(st) == st

\* fd.create_group(name) raises when the name is already in the file
GroupExists(st, name) == name \in DOMAIN st

\* the new, still empty group; a group is the number of datasets it holds,
\* written in FieldOrder
create_group(st, name) ==
    [n \in DOMAIN st \cup {name} |-> IF n = name THEN 0 ELSE st[n]]

\* grp.create_dataset(k, data=v) for the next field of pred
create_dataset(st, name) == [st EXCEPT ![name] = @ + 1]

Finished == {"done", "error", "aborted"}

\* the positions of a run inside the loop of lines 178-203
LoopStates == {"loop", "fetched", "inferred", "post", "open"}

PIdle ==
    /\ store = EmptyStore
    /\ files = {}
    /\ image_list = NoList
    /\ pc = "idle"
    /\ names = <<>>
    /\ skip_names = {}
    /\ loaded = FALSE
    /\ idx = 0
    /\ err = "none"
    /\ startStore = EmptyStore
    /\ preprocLog = <<>>
    /\ inferLog = <<>>
    /\ postLog = <<>>
    /\ appendLog = <<>>
    /\ base = EmptyStore
    /\ resumed = FALSE

\* main(conf, image_dir, export_dir, as_half, image_list, feature_path) is
\* called against the same feature_path, with any image set under image_dir
StartRun ==
    /\ pc = "idle"
    /\ \E fs \in SUBSET Names, il \in ImageLists :
        /\ files' = fs
        /\ image_list' = il
        /\ resumed' = (err # "none" /\ fs = files /\ il = image_list)
    /\ base' = IF resumed' THEN base ELSE store
    /\ startStore' = store
    /\ err' = "none"
    /\ pc' = "init"
    /\ UNCHANGED <<store, names, skip_names, loaded, idx, preprocLog,
                   inferLog, postLog, appendLog>>
    /\ UNCHANGED others_p

\* the process ends and its locals are gone; what the run was given is
\* remembered only after an interruption, for the run that resumes it
Exit ==
    /\ pc \in Finished
    /\ pc' = "idle"
    /\ names' = <<>>
    /\ skip_names' = {}
    /\ loaded' = FALSE
    /\ idx' = 0
    /\ startStore' = EmptyStore
    /\ preprocLog' = <<>>
    /\ inferLog' = <<>>
    /\ postLog' = <<>>
    /\ appendLog' = <<>>
    /\ resumed' = FALSE
    /\ IF pc = "aborted"
       THEN UNCHANGED <<files, image_list, err, base>>
       ELSE /\ files' = {}
            /\ image_list' = NoList
            /\ err' = "none"
            /\ base' = EmptyStore
    /\ UNCHANGED store
    /\ UNCHANGED others_p

\* line 162, __init__ returns
Resolve ==
    /\ pc = "init"
    /\ ResolveError(files, image_list) = "none"
    /\ names' = ResolveNames(files, image_list)
    /\ pc' = "check_skip"
    /\ UNCHANGED <<store, files, image_list, skip_names, loaded, idx,
                   err, startStore, preprocLog, inferLog, postLog, appendLog,
                   base, resumed>>
    /\ UNCHANGED others_p

\* line 162, __init__ raises (lines 107, 122)
ResolveFail ==
    /\ pc = "init"
    /\ ResolveError(files, image_list) # "none"
    /\ err' = ResolveError(files, image_list)
    /\ pc' = "error"
    /\ UNCHANGED <<store, files, image_list, names, skip_names,
                   loaded, idx, startStore, preprocLog, inferLog, postLog,
                   appendLog, base, resumed>>
    /\ UNCHANGED others_p

\* lines 168-172: every name is stored already, return feature_path
CheckSkipAll ==
    /\ pc = "check_skip"
    /\ skip_names' = list_h5_names(store)
    /\ AllSkipped(names, skip_names')
    /\ pc' = "done"
    /\ UNCHANGED <<store, files, image_list, names, loaded, idx, err,
                   startStore, preprocLog, inferLog, postLog, appendLog,
                   base, resumed>>
    /\ UNCHANGED others_p

\* lines 168-170: something is left to extract
CheckSkipSome ==
    /\ pc = "check_skip"
    /\ skip_names' = list_h5_names(store)
    /\ ~AllSkipped(names, skip_names')
    /\ pc' = "load"
    /\ UNCHANGED <<store, files, image_list, names, loaded, idx, err,
                   startStore, preprocLog, inferLog, postLog, appendLog,
                   base, resumed>>
    /\ UNCHANGED others_p

\* lines 174-176
LoadBackend ==
    /\ pc = "load"
    /\ loaded' = TRUE
    /\ idx' = 1
    /\ pc' = "loop"
    /\ UNCHANGED <<store, files, image_list, names, skip_names, err,
                   startStore, preprocLog, inferLog, postLog, appendLog,
                   base, resumed>>
    /\ UNCHANGED others_p

\* line 178: the loader yields ImageDataset.__getitem__(idx) of the next name,
\* whether or not the name is in skip_names (its worker may have read the
\* image ahead of the loop; the read is recorded when it is yielded)
Fetch ==
    /\ pc = "loop"
    /\ idx <= Len(names)
    /\ preprocLog' = Append(preprocLog, names[idx])
    /\ pc' = "fetched"
    /\ UNCHANGED <<store, files, image_list, names, skip_names,
                   loaded, idx, err, startStore, inferLog, postLog, appendLog,
                   base, resumed>>
    /\ UNCHANGED others_p

\* lines 180-181
SkipName ==
    /\ pc = "fetched"
    /\ InSkip(names[idx], skip_names)
    /\ idx' = idx + 1
    /\ pc' = "loop"
    /\ UNCHANGED <<store, files, image_list, names, skip_names,
                   loaded, err, startStore, preprocLog, inferLog, postLog,
                   appendLog, base, resumed>>
    /\ UNCHANGED others_p

\* lines 183-184
Infer ==
    /\ pc = "fetched"
    /\ ~InSkip(names[idx], skip_names)
    /\ inferLog' = Append(inferLog, names[idx])
    /\ pc' = "inferred"
    /\ UNCHANGED <<store, files, image_list, names, skip_names,
                   loaded, idx, err, startStore, preprocLog, postLog,
                   appendLog, base, resumed>>
    /\ UNCHANGED others_p

\* line 183: the backend raises, nothing catches it
InferFail ==
    /\ pc = "fetched"
    /\ ~InSkip(names[idx], skip_names)
    /\ inferLog' = Append(inferLog, names[idx])
    /\ err' = "InferenceError"
    /\ pc' = "aborted"
    /\ UNCHANGED <<store, files, image_list, names, skip_names,
                   loaded, idx, startStore, preprocLog, postLog, appendLog,
                   base, resumed>>
    /\ UNCHANGED others_p

\* lines 186-196
Postprocess ==
    /\ pc = "inferred"
    /\ postLog' = Append(postLog, names[idx])
    /\ pc' = "post"
    /\ UNCHANGED <<store, files, image_list, names, skip_names,
                   loaded, idx, err, startStore, preprocLog, inferLog,
                   appendLog, base, resumed>>
    /\ UNCHANGED others_p

\* lines 198-199
CreateGroup ==
    /\ pc = "post"
    /\ ~GroupExists(OpenAppend(store), names[idx])
    /\ store' = create_group(OpenAppend(store), names[idx])
    /\ appendLog' = Append(appendLog, names[idx])
    /\ pc' = "open"
    /\ UNCHANGED <<files, image_list, names, skip_names, loaded, idx,
                   err, startStore, preprocLog, inferLog, postLog, base,
                   resumed>>
    /\ UNCHANGED others_p

\* line 199: h5py refuses to create a group that exists
CreateGroupFail ==
    /\ pc = "post"
    /\ GroupExists(OpenAppend(store), names[idx])
    /\ store' = OpenAppend(store)
    /\ err' = "DuplicateKey"
    /\ pc' = "error"
    /\ UNCHANGED <<files, image_list, names, skip_names, loaded, idx,
                   startStore, preprocLog, inferLog, postLog, appendLog, base,
                   resumed>>
    /\ UNCHANGED others_p

\* lines 200-201, one field of pred
CreateDataset ==
    /\ pc = "open"
    /\ store[names[idx]] < NumFields
    /\ store' = create_dataset(store, names[idx])
    /\ UNCHANGED <<files, image_list, pc, names, skip_names, loaded,
                   idx, err, startStore, preprocLog, inferLog, postLog,
                   appendLog, base, resumed>>
    /\ UNCHANGED others_p

\* the with block ends, line 203, next iteration
CloseFile ==
    /\ pc = "open"
    /\ store[names[idx]] = NumFields
    /\ idx' = idx + 1
    /\ pc' = "loop"
    /\ UNCHANGED <<store, files, image_list, names, skip_names,
                   loaded, err, startStore, preprocLog, inferLog, postLog,
                   appendLog, base, resumed>>
    /\ UNCHANGED others_p

\* lines 205-206
FinishLoop ==
    /\ pc = "loop"
    /\ idx > Len(names)
    /\ pc' = "done"
    /\ UNCHANGED <<store, files, image_list, names, skip_names,
                   loaded, idx, err, startStore, preprocLog, inferLog, postLog,
                   appendLog, base, resumed>>
    /\ UNCHANGED others_p

\* the process is interrupted inside the loop (KeyboardInterrupt, a failed
\* write); an open file is closed by the with statement with what it holds
Interrupt ==
    /\ pc \in LoopStates
    /\ err' = "Interrupt"
    /\ pc' = "aborted"
    /\ UNCHANGED <<store, files, image_list, names, skip_names,
                   loaded, idx, startStore, preprocLog, inferLog, postLog,
                   appendLog, base, resumed>>
    /\ UNCHANGED others_p

PNext ==
    \/ StartRun
    \/ Exit
    \/ Resolve
    \/ ResolveFail
    \/ CheckSkipAll
    \/ CheckSkipSome
    \/ LoadBackend
    \/ Fetch
    \/ SkipName
    \/ Infer
    \/ InferFail
    \/ Postprocess
    \/ CreateGroup
    \/ CreateGroupFail
    \/ CreateDataset
    \/ CloseFile
    \/ FinishLoop
    \/ Interrupt

(* ------------------- properties of the extraction loop ------------------ *)
IsPrefix(s, t) == Len(s) <= Len(t) /\ \A i \in 1..Len(s) : s[i] = t[i]

InRun == pc # "idle"

\* C1: an entry that is in the store when a run starts is still there, with
\* the same datasets, at every later point of that run, however the run ends
C1_AppendOnly ==
    InRun => \A n \in DOMAIN startStore :
                n \in DOMAIN store /\ store[n] = startStore[n]

\* a run that found entries in the store (one of them cut short by an earlier
\* interruption) and has appended a new one
C1_Witness ==
    /\ pc = "done"
    /\ appendLog # <<>>
    /\ \E n \in DOMAIN startStore : startStore[n] < NumFields

\* what a single uninterrupted run over ns stores on top of the store b
Uninterrupted(b, ns) ==
    [n \in DOMAIN b \cup Range(ns) |-> IF n \in DOMAIN b THEN b[n] ELSE NumFields]

\* C2: a run that repeats the inputs of an interrupted run, when it returns,
\* has inferred none of the names already stored and leaves the store an
\* uninterrupted run would have left: every new name with all its datasets
C2_ResumeCompletes ==
    (pc = "done" /\ resumed) =>
        /\ Range(inferLog) \cap DOMAIN startStore = {}
        /\ store = Uninterrupted(base, names)

\* C3: once every resolved name is found in the store, the run returns at
\* once: no backend, no image read, no inference, no group, the store as it was
C3_SkipAll ==
    ( /\ pc \in {"check_skip", "load", "done", "aborted"} \cup LoopStates
      /\ Range(names) \subseteq DOMAIN startStore )
    => /\ pc \in {"check_skip", "done"}
       /\ ~loaded
       /\ err = "none"
       /\ preprocLog = <<>> /\ inferLog = <<>> /\ appendLog = <<>>
       /\ store = startStore

\* a run over names that are all stored has returned
C3_Witness ==
    /\ pc = "done"
    /\ names # <<>>
    /\ Range(names) \subseteq DOMAIN startStore
    /\ ~loaded

\* C4: create_group is never reached for a name the file already holds, so
\* h5py's "name already exists" error never ends a run
C4_NeverAppendsExisting ==
    /\ err # "DuplicateKey"
    /\ pc = "post" => ~GroupExists(store, names[idx])

\* C5: an explicit list naming a file that is not under the root ends the run
\* in __init__ with the missing-image error: no backend, no inference, no write
C5_MissingFailsFast ==
    ( /\ InRun
      /\ image_list.kind # "None"
      /\ ~(Range(image_list.names) \subseteq files) )
    => /\ pc \in {"init", "error"}
       /\ pc = "error" => err = "MissingImage"
       /\ ~loaded
       /\ inferLog = <<>>
       /\ store = startStore

\* the missing-image error raised against a store that holds entries
C5_Witness ==
    /\ pc = "error"
    /\ err = "MissingImage"
    /\ DOMAIN store # {}

\* the resolved names that are not in the skip set, in resolution order
ToDo == LET fresh(n) == ~InSkip(n, skip_names) IN SelectSeq(names, fresh)

\* C10: preprocess, infer, postprocess and append are performed for the names
\* outside the skip set only, in resolution order, and after a completed loop
\* for all of them, every resolved name then being a key of the store
C10_OnlyUnskippedProcessed ==
    (loaded /\ pc # "error") =>
        /\ IsPrefix(preprocLog, ToDo)
        /\ IsPrefix(inferLog, ToDo)
        /\ IsPrefix(postLog, ToDo)
        /\ IsPrefix(appendLog, ToDo)
        /\ pc = "done" =>
            /\ preprocLog = ToDo /\ inferLog = ToDo
            /\ postLog = ToDo /\ appendLog = ToDo
            /\ Range(names) \subseteq DOMAIN store

(* ------------- ImageDataset.__getitem__ and the rescaling --------------- *)
\* largest width or height of the small images
MaxDim == 6
\* binary digits after the point of the floating-point keypoints of the model
FracBits == 3
\* significant binary digits of that floating-point format (float32 has 24)
MantBits == 4

Max(a, b) == IF a >= b THEN a ELSE b

\* the small sizes, and those of the images a.jpg and b.png of the scenario
Dims == 1..MaxDim \cup {50, 100}
ResizeMaxs == 0..MaxDim \cup {80}

\* p[::-1] of a pair
Reversed(p) == <<p[2], p[1]>>

\* the condition of lines 132-133 without the size test
ResamplesWheneverSet(c, w, h) == c.resize_max # 0

\* lines 132-133; resize_max None or 0 is falsy
Resamples(c, w, h) ==
    c.resize_max # 0 /\ (c.resize_force \/ Max(w, h) > c.resize_max)

\* int(round(x * scale)), line 135, for scale = n / d computed in floating
\* point: the nearest integer, and at an exact tie either neighbour, since the
\* rounding error of scale decides on which side x * scale falls
RoundScaled(x, n, d) ==
    LET q == (x * n) \div d
        r == (x * n) % d
    IN IF 2 * r < d THEN {q}
       ELSE IF 2 * r > d THEN {q + 1}
       ELSE {q, q + 1}

\* the (h_new, w_new) line 135 can compute
NewShapes(c, w, h) ==
    {<<hn, wn>> : hn \in RoundScaled(h, c.resize_max, Max(h, w)),
                  wn \in RoundScaled(w, c.resize_max, Max(h, w))}

RECURSIVE Pow2(_)
Pow2(n) == IF n = 0 THEN 1 ELSE 2 * Pow2(n - 1)

RECURSIVE BitLen(_)
BitLen(a) == IF a = 0 THEN 0 ELSE 1 + BitLen(a \div 2)

\* floating-point numbers are counted in units of 2^-FracBits
Unit == Pow2(FracBits)
HalfPx == Unit \div 2

\* the spacing of the floating-point numbers around the magnitude a
Ulp(a) == IF a < Pow2(MantBits) THEN 1 ELSE Pow2(BitLen(a) - MantBits)

Representable(v) == LET a == IF v < 0 THEN -v ELSE v IN a % Ulp(a) = 0

\* n / d (n >= 0, d > 0) rounded to the nearest floating-point number, ties
\* to even
RoundRat(n, d) ==
    LET u == Ulp(n \div d)
        q == n \div (d * u)
        r == n - q * d * u
    IN u * (IF 2 * r < d * u THEN q
            ELSE IF 2 * r > d * u THEN q + 1
            ELSE IF q % 2 = 0 THEN q ELSE q + 1)

FRound(n, d) == IF n >= 0 THEN RoundRat(n, d) ELSE -RoundRat(-n, d)

\* the floating-point operations of lines 189-190
fdiv(a, b) == FRound(a * Unit, b)
fadd(a, b) == FRound(a + b, 1)
fmul(a, b) == FRound(a * b, Unit)

\* np.array(data['image'].shape[-2:]) taken as it is, (H, W)
ProcessedSizeUnflipped(image_shape) == image_shape

\* size = np.array(data['image'].shape[-2:][::-1]), line 188: (W, H)
ProcessedSize(image_shape) == Reversed(image_shape)

\* scales = (original_size / size).astype(np.float32), line 189
Scales(original_size, size) ==
    <<fdiv(original_size[1], size[1]), fdiv(original_size[2], size[2])>>

\* (pred['keypoints'] + .5) * scales[None] - .5, line 190
RescaleKeypoint(k, scales) ==
    <<fadd(fmul(fadd(k[1], HalfPx), scales[1]), -HalfPx),
      fadd(fmul(fadd(k[2], HalfPx), scales[2]), -HalfPx)>>

\* keypoint coordinates the backend may return: whole pixels, and sub-pixel
\* positions, among them the largest odd multiple of the unit below 2^MantBits
KpVals ==
    {k \in {0, Unit \div 4, Unit, Unit + Unit \div 4, Pow2(MantBits) - 3,
            3 * Unit} : Representable(k)}

NoData == [original_size |-> <<0, 0>>, image_shape |-> <<0, 0>>,
           resampled |-> FALSE]
NoPred == [image_size |-> <<0, 0>>, keypoints |-> <<0, 0>>]

IIdle ==
    /\ raw = <<0, 0>>
    /\ pconf = [resize_max |-> 0, resize_force |-> FALSE]
    /\ data = NoData
    /\ kp = <<0, 0>>
    /\ pred = NoPred
    /\ ipc = "idle"

\* an image of any size has been read under any preprocessing configuration
IInit ==
    /\ raw \in Dims \X Dims
    /\ pconf \in [resize_max : ResizeMaxs, resize_force : BOOLEAN]
    /\ data = NoData
    /\ kp = <<0, 0>>
    /\ pred = NoPred
    /\ ipc = "read"

\* lines 129-150, the image is returned as read
GetItemAsIs ==
    /\ ipc = "read"
    /\ LET size == Reversed(raw) IN
        /\ ~Resamples(pconf, size[1], size[2])
        /\ data' = [original_size |-> size, image_shape |-> raw,
                    resampled |-> FALSE]
    /\ ipc' = "item"
    /\ UNCHANGED <<raw, pconf, kp, pred>>
    /\ UNCHANGED others_i

\* lines 129-150, the image is resampled by cv2.resize
GetItemResized ==
    /\ ipc = "read"
    /\ LET size == Reversed(raw) IN
        /\ Resamples(pconf, size[1], size[2])
        /\ \E shape \in NewShapes(pconf, size[1], size[2]) :
            /\ shape[1] > 0 /\ shape[2] > 0
            /\ data' = [original_size |-> size, image_shape |-> shape,
                        resampled |-> TRUE]
    /\ ipc' = "item"
    /\ UNCHANGED <<raw, pconf, kp, pred>>
    /\ UNCHANGED others_i

\* line 136: cv2.resize rejects a target size with a zero side
GetItemResizeFail ==
    /\ ipc = "read"
    /\ LET size == Reversed(raw) IN
        /\ Resamples(pconf, size[1], size[2])
        /\ \E shape \in NewShapes(pconf, size[1], size[2]) :
            shape[1] = 0 \/ shape[2] = 0
    /\ ipc' = "error"
    /\ UNCHANGED <<raw, pconf, data, kp, pred>>
    /\ UNCHANGED others_i

\* lines 183-184: the backend returns a keypoint
Model ==
    /\ ipc = "item"
    /\ kp' \in KpVals \X KpVals
    /\ ipc' = "inferred"
    /\ UNCHANGED <<raw, pconf, data, pred>>
    /\ UNCHANGED others_i

\* lines 186-190
Rescale ==
    /\ ipc = "inferred"
    /\ pred' = [image_size |-> data.original_size,
                keypoints |->
                    RescaleKeypoint(kp, Scales(data.original_size,
                                    ProcessedSize(data.image_shape)))]
    /\ ipc' = "rescaled"
    /\ UNCHANGED <<raw, pconf, data, kp>>
    /\ UNCHANGED others_i

INext ==
    \/ GetItemAsIs
    \/ GetItemResized
    \/ GetItemResizeFail
    \/ Model
    \/ Rescale

(* ------------------ the dtypes of pred, lines 184-201 ------------------- *)
DTypes == {"float16", "float32", "float64", "int32", "int64"}
FloatDTypes == {"float16", "float32", "float64"}

\* the fields a backend may return besides image_size, which main() adds
BackendFields == {"keypoints", "descriptors", "scores"}

NoDTypes == [f \in {} |-> "none"]

\* the dtype of (keypoints + .5) * scales[None] - .5 with float32 scales:
\* NumPy keeps float32 and float64, widens float16 to float32 and turns
\* integer arrays into float64
RescaledDType(dt) ==
    IF dt \in {"float16", "float32"} THEN "float32" ELSE "float64"

\* lines 186-190 on the dtypes: image_size is the int64 original_size
AfterRescale(b) ==
    [f \in DOMAIN b \cup {"image_size"} |->
        IF f = "image_size" THEN "int64"
        ELSE IF f = "keypoints" THEN RescaledDType(b[f])
        ELSE b[f]]

\* a downcast of every floating-point dtype
DowncastAnyFloat(dt) == IF dt \in FloatDTypes THEN "float16" ELSE dt

\* lines 194-196: if (dt == np.float32) and (dt != np.float16)
Downcast(dt) ==
    IF dt = "float32" /\ dt # "float16" THEN "float16" ELSE dt

HIdle ==
    /\ back_dt = NoDTypes
    /\ pre_dt = NoDTypes
    /\ pred_dt = NoDTypes
    /\ saved_dt = NoDTypes
    /\ half = FALSE
    /\ hpc = "idle"

\* line 184: the backend has returned arrays of any dtypes, with or without
\* keypoints
HInit ==
    /\ \E F \in SUBSET BackendFields :
        /\ F # {}
        /\ back_dt \in [F -> DTypes]
    /\ pred_dt = back_dt
    /\ pre_dt = NoDTypes
    /\ saved_dt = NoDTypes
    /\ half \in BOOLEAN
    /\ hpc = "pred"

\* lines 186-190
RescaleDTypes ==
    /\ hpc = "pred"
    /\ pred_dt' = AfterRescale(pred_dt)
    /\ pre_dt' = AfterRescale(pred_dt)
    /\ hpc' = "rescaled"
    /\ UNCHANGED <<back_dt, saved_dt, half>>
    /\ UNCHANGED others_h

\* lines 192-196 with as_half
DowncastPred ==
    /\ hpc = "rescaled"
    /\ half
    /\ pred_dt' = [f \in DOMAIN pred_dt |-> Downcast(pred_dt[f])]
    /\ hpc' = "cast"
    /\ UNCHANGED <<back_dt, pre_dt, saved_dt, half>>
    /\ UNCHANGED others_h

\* line 192 without as_half
KeepPred ==
    /\ hpc = "rescaled"
    /\ ~half
    /\ hpc' = "cast"
    /\ UNCHANGED <<back_dt, pre_dt, pred_dt, saved_dt, half>>
    /\ UNCHANGED others_h

\* lines 198-201: create_dataset keeps the dtype of the array it is given
SavePred ==
    /\ hpc = "cast"
    /\ saved_dt' = pred_dt
    /\ hpc' = "stored"
    /\ UNCHANGED <<back_dt, pre_dt, pred_dt, half>>
    /\ UNCHANGED others_h

HNext ==
    \/ RescaleDTypes
    \/ DowncastPred
    \/ KeepPred
    \/ SavePred

(* ------------------------- the command line ------------------------------ *)
\* confs, lines 27-87: the output name of each named configuration
confs ==
    [c \in {"superpoint_aachen", "superpoint_max", "superpoint_inloc",
            "d2net-ss", "dir"} |->
        CASE c = "superpoint_aachen" -> [output |-> "feats-superpoint-n4096-r1024"]
          [] c = "superpoint_max" -> [output |-> "feats-superpoint-n4096-rmax1600"]
          [] c = "superpoint_inloc" -> [output |-> "feats-superpoint-n4096-r1600"]
          [] c = "d2net-ss" -> [output |-> "feats-d2net-ss"]
          [] c = "dir" -> [output |-> "global-feats-dir"]]

None == [dir |-> "None", file |-> "None"]

\* Path(export_dir, conf['output'] + '.h5'), line 166
DefaultPath(export_dir, conf) == [dir |-> export_dir, file |-> conf.output]

\* paths that can be given on the command line
ExportDirs == {"outputs/a", "outputs/b"}
ListPaths == {None, [dir |-> "lists", file |-> "query.txt"]}
FeaturePaths == {None, [dir |-> "elsewhere", file |-> "feats.h5"]}

NoArgs == [conf |-> "none", image_dir |-> "none", export_dir |-> "none",
           as_half |-> FALSE, image_list |-> None, feature_path |-> None]

\* the parameters of main() at line 219: conf, image_dir, export_dir and
\* as_half are passed, image_list and feature_path keep their defaults
MainCall(a) ==
    [conf |-> confs[a.conf], image_dir |-> a.image_dir,
     export_dir |-> a.export_dir, as_half |-> a.as_half,
     image_list |-> None, feature_path |-> None]

NoCall == [conf |-> [output |-> "none"], image_dir |-> "none",
           export_dir |-> "none", as_half |-> FALSE, image_list |-> None,
           feature_path |-> None]

CIdle ==
    /\ args = NoArgs
    /\ call = NoCall
    /\ out_path = None
    /\ cpc = "idle"

CInit ==
    /\ args = NoArgs
    /\ call = NoCall
    /\ out_path = None
    /\ cpc = "start"

\* lines 210-218
ParseArgs ==
    /\ cpc = "start"
    /\ args' \in [conf : DOMAIN confs, image_dir : {"datasets/images"},
                  export_dir : ExportDirs, as_half : BOOLEAN,
                  image_list : ListPaths, feature_path : FeaturePaths]
    /\ cpc' = "parsed"
    /\ UNCHANGED <<call, out_path>>
    /\ UNCHANGED others_c

\* line 219
CallMain ==
    /\ cpc = "parsed"
    /\ call' = MainCall(args)
    /\ cpc' = "main"
    /\ UNCHANGED <<args, out_path>>
    /\ UNCHANGED others_c

\* lines 165-166 and the return of feature_path
MainFeaturePath ==
    /\ cpc = "main"
    /\ out_path' = IF call.feature_path = None
                   THEN DefaultPath(call.export_dir, call.conf)
                   ELSE call.feature_path
    /\ cpc' = "returned"
    /\ UNCHANGED <<args, call>>
    /\ UNCHANGED others_c

CNext ==
    \/ ParseArgs
    \/ CallMain
    \/ MainFeaturePath

(* --------------------------- specifications ----------------------------- *)
InitRun == PIdle /\ IIdle /\ HIdle /\ CIdle
InitImage == PIdle /\ IInit /\ HIdle /\ CIdle
InitDTypes == PIdle /\ IIdle /\ HInit /\ CIdle
InitCli == PIdle /\ IIdle /\ HIdle /\ CInit

\* runs of main() against one feature file
Spec == InitRun /\ [][PNext]_vars

\* one image through __getitem__, the backend and the keypoint rescaling
SpecImage == InitImage /\ [][INext]_vars

\* the dtypes of one pred dict
SpecDTypes == InitDTypes /\ [][HNext]_vars

\* the command-line entry point
SpecCli == InitCli /\ [][CNext]_vars

(* ------------------- properties of __getitem__ -------------------------- *)
ImageReturned == ipc \in {"item", "inferred", "rescaled"}

\* C6: the image is resampled exactly when resize_max is set and
\* (resize_force or max(w, h) > resize_max); without resize_force no side
\* grows; a resampled image has the size (round(w*s), round(h*s)) for
\* s = resize_max / max(w, h) and its longer side is resize_max; 100x50 and
\* 50x100 under resize_max = 80 become 80x40 and 40x80
C6_ResizePolicy ==
    ImageReturned =>
        LET w == raw[2]
            h == raw[1]
            R == pconf.resize_max
            m == IF w >= h THEN w ELSE h
            wn == data.image_shape[2]
            hn == data.image_shape[1]
            dw == wn * m - w * R
            dh == hn * m - h * R
        IN /\ data.original_size = <<w, h>>
           /\ data.resampled <=>
                (R # 0 /\ (pconf.resize_force \/ w > R \/ h > R))
           /\ ~data.resampled => (wn = w /\ hn = h)
           /\ ~pconf.resize_force => (wn <= w /\ hn <= h)
           /\ data.resampled =>
                /\ (wn = R /\ hn <= R) \/ (hn = R /\ wn <= R)
                /\ 2 * dw <= m /\ -2 * dw <= m
                /\ 2 * dh <= m /\ -2 * dh <= m
           /\ (w = 100 /\ h = 50 /\ R = 80) => (wn = 80 /\ hn = 40)
           /\ (w = 50 /\ h = 100 /\ R = 80) => (wn = 40 /\ hn = 80)

\* b.png of the scenario, 50x100, resampled under resize_max = 80 without
\* resize_force
C6_Witness ==
    /\ ipc = "item"
    /\ raw = <<100, 50>>
    /\ pconf = [resize_max |-> 80, resize_force |-> FALSE]
    /\ data.resampled

(* ------------------- properties of the rescaling ------------------------ *)
\* the original and the processed length along axis i (1: x and the widths,
\* 2: y and the heights)
OrigLen(i) == IF i = 1 THEN raw[2] ELSE raw[1]
ProcLen(i) == IF i = 1 THEN data.image_shape[2] ELSE data.image_shape[1]

\* every intermediate value of (k + .5) * scale - .5 along axis i is a
\* floating-point number, so that no operation rounds
NoRounding(i) ==
    LET t == kp[i] + HalfPx IN
    /\ (OrigLen(i) * Unit) % ProcLen(i) = 0
    /\ Representable((OrigLen(i) * Unit) \div ProcLen(i))
    /\ Representable(t)
    /\ (t * OrigLen(i)) % ProcLen(i) = 0
    /\ Representable((t * OrigLen(i)) \div ProcLen(i))
    /\ Representable((t * OrigLen(i)) \div ProcLen(i) - HalfPx)

C7_DowncastFloat32Only ==
    hpc = "stored" =>
        /\ DOMAIN saved_dt = DOMAIN back_dt \cup {"image_size"}
        /\ saved_dt["image_size"] = "int64"
        /\ \A f \in DOMAIN back_dt \ {"keypoints"} : pre_dt[f] = back_dt[f]
        /\ \A f \in DOMAIN saved_dt :
            /\ (half /\ pre_dt[f] = "float32") => saved_dt[f] = "float16"
            /\ (half /\ pre_dt[f] # "float32") => saved_dt[f] = pre_dt[f]
            /\ ~half => saved_dt[f] = pre_dt[f]

\* a result stored with as_half whose float32 descriptors became float16
\* while its float64 scores and its int64 image_size kept their dtype
C7_Witness ==
    /\ hpc = "stored"
    /\ half
    /\ "descriptors" \in DOMAIN back_dt /\ "scores" \in DOMAIN back_dt
    /\ back_dt["descriptors"] = "float32"
    /\ saved_dt["descriptors"] = "float16"
    /\ back_dt["scores"] = "float64"
    /\ saved_dt["scores"] = "float64"
    /\ saved_dt["image_size"] = "int64"

\* C7 as stated: with as_half every floating-point field is stored as
\* float16 and every other field keeps its kind; without as_half no field's
\* kind changes
C7_AllFloatsHalved ==
    hpc = "stored" =>
        \A f \in DOMAIN saved_dt :
            /\ (half /\ pre_dt[f] \in FloatDTypes) => saved_dt[f] = "float16"
            /\ (half /\ pre_dt[f] \notin FloatDTypes) => saved_dt[f] = pre_dt[f]
            /\ ~half => saved_dt[f] = pre_dt[f]

(* ------------------- properties of the command line --------------------- *)
\* C9: every parsed flag reaches main(): the image list restricts the
\* extraction and an explicit feature path is the file that is written
C9_FlagsReachMain ==
    /\ cpc \in {"main", "returned"} =>
        /\ call.image_list = args.image_list
        /\ call.feature_path = args.feature_path
        /\ call.as_half = args.as_half
        /\ call.export_dir = args.export_dir
        /\ call.image_dir = args.image_dir
        /\ call.conf = confs[args.conf]
    /\ (cpc = "returned" /\ args.feature_path # None) =>
        out_path = args.feature_path

====
